---- MODULE Spec2Model ----
(***************************************************************************)
(* Model of the batched-request pipeline of the notebook                   *)
(* "Using The OpenAI API for Categorization and Labeling Tutorial.ipynb":  *)
(*   - get_completion_from_messages_batch, the loop that slices df into    *)
(*     batches and calls openai.ChatCompletion.create once per batch,      *)
(*     wrapped as a whole by tenacity's                                    *)
(*       @retry(wait=wait_random_exponential(min=30, max=60),              *)
(*              stop=stop_after_attempt(6))                                *)
(*   - the all_topics / unique_topics cells (distinct-label extraction).   *)
(*                                                                         *)
(* Rows are identified by their position 1..df_len.  A response is         *)
(* identified by the batch it answers and the attempt it was obtained in.  *)
(* The variable log is a history of everything that left the process:      *)
(* every outbound call with its result, and every backoff sleep.           *)
(***************************************************************************)
EXTENDS Integers, Sequences, FiniteSets, TLC

\* ---------------------------------------------------------------- bounds
MaxRows == 3
MaxBatch == 3
MaxLabels == 2
MaxChars == 4

\* ------------------------------------------------------ program constants
\* stop_after_attempt(6)
stop_max_attempt_number == 6
\* wait_random_exponential(min=30, max=60)
wait_min == 30
wait_max == 60
\* tenacity defaults of wait_random_exponential: multiplier=1, exp_base=2
wait_multiplier == 1
wait_exp_base == 2

VARIABLES
    df_len,          \* len(df): the number of rows of the data frame
    batch_size,      \* the batch_size argument
    pc,              \* "body" | "sleep" | "returned" | "raised"
    i,               \* the loop variable of  for i in range(0, len(df), batch_size)
    responses,       \* the local list  responses
    attempt_number,  \* tenacity's retry_state.attempt_number
    outcome,         \* what the caller gets: the returned list or the raised exception
    log,             \* history: outbound calls and sleeps, in order
    temp,            \* the list of labels read from the topics table
    all_topics,      \* the list all_topics
    unique_topics,   \* set(all_topics)
    tpc              \* position in the topics cells: "read" | "filter" | "unique" | "done"

dvars == <<df_len, batch_size, pc, i, responses, attempt_number, outcome, log>>
tvars == <<temp, all_topics, unique_topics, tpc>>
vars == <<df_len, batch_size, pc, i, responses, attempt_number, outcome, log,
          temp, all_topics, unique_topics, tpc>>

\* ---------------------------------------------------------------- helpers
Min(a, b) == IF a < b THEN a ELSE b
Max(a, b) == IF a > b THEN a ELSE b

RECURSIVE Pow(_, _)
Pow(b, e) == IF e = 0 THEN 1 ELSE b * Pow(b, e - 1)

RECURSIVE Concat(_)
Concat(ss) == IF ss = <<>> THEN <<>> ELSE Head(ss) \o Concat(Tail(ss))

SelectIdx(s, Test(_)) == {j \in 1..Len(s) : Test(s[j])}

\* ceil(n / b), computed without reference to the loop
CeilDiv(n, b) == (n + b - 1) \div b

\* The original row sequence: rows identified by position.
Rows == [j \in 1..df_len |-> j]

\* ------------------------------------------------- the dispatcher's pieces
\* df.iloc[i:i+batch_size]
BatchShort(start) == [j \in 1..(Min(start + batch_size - 1, df_len) - start) |-> start + j]
Batch(start) == [j \in 1..(Min(start + batch_size, df_len) - start) |-> start + j]

\* responses = []  at the top of the function body, executed by every attempt
StaleResponses == responses
FreshResponses == <<>>

\* Errors the outbound call can raise
ErrorKinds == {"transient", "permanent"}

\* stop=stop_after_attempt(6): stop when attempt_number >= max_attempt_number
StopAfterAttemptLate == attempt_number >= stop_max_attempt_number + 2
stop_after_attempt == attempt_number >= stop_max_attempt_number

\* wait_exponential.__call__: max(max(0, min), min(multiplier * exp_base^(n-1), max))
wait_exponential(n) == Max(Max(0, wait_min), Min(wait_multiplier * Pow(wait_exp_base, n - 1), wait_max))

\* wait_random_exponential.__call__: random.uniform(min, high), the window of
\* the tenacity releases that honour the min argument passed at line 348
WaitWindowNoMin(n) == 0..wait_exponential(n)
wait_random_exponential(n) == wait_min..wait_exponential(n)

\* tenacity without reraise: raise RetryError(last_attempt) from the last exception
RetryErrorOfFirst(e) ==
    LET fs == SelectIdx(log, LAMBDA ev : ev.ev = "call" /\ ev.result # "ok")
    IN [type |-> "RetryError",
        last_attempt |-> IF fs = {} THEN e
                         ELSE LET f == log[CHOOSE j \in fs : \A m \in fs : j <= m]
                              IN [kind |-> f.result, batch |-> f.batch, attempt |-> f.attempt]]
PartialResults(e) == [type |-> "list", value |-> responses]
RetryError(e) == [type |-> "RetryError", last_attempt |-> e]

\* The system_message argument: an opaque string
system_message == "system_message"

\* delimiter = '####', and the text of a row, as pieces of a message content
delimiter == [kind |-> "delimiter", row |-> 0]
RowText(r) == [kind |-> "text", row |-> r]

\* user_message = ""; for index, row in batch.iterrows():
\*     user_message += f"{row['sentences']}{delimiter}"
RECURSIVE UserMessageJoined(_)
UserMessageJoined(batch) ==
    IF batch = <<>> THEN <<>>
    ELSE IF Len(batch) = 1 THEN <<RowText(Head(batch))>>
    ELSE <<RowText(Head(batch)), delimiter>> \o UserMessageJoined(Tail(batch))
RECURSIVE UserMessage(_)
UserMessage(batch) ==
    IF batch = <<>> THEN <<>>
    ELSE <<RowText(Head(batch)), delimiter>> \o UserMessage(Tail(batch))

\* messages = [{'role':'system', 'content': system_message},
\*             {'role':'user', 'content': user_message}]
Messages(batch) ==
    <<[role |-> "system", content |-> system_message],
      [role |-> "user", content |-> UserMessage(batch)]>>

CallEvent(res) ==
    [ev |-> "call", attempt |-> attempt_number, batch |-> i \div batch_size,
     rows |-> Batch(i), messages |-> Messages(Batch(i)), result |-> res, delay |-> 0]
SleepEvent(d) ==
    [ev |-> "sleep", attempt |-> attempt_number, batch |-> -1,
     rows |-> <<>>, messages |-> <<>>, result |-> "none", delay |-> d]

\* ------------------------------------------------------------------ Init
DInit ==
    /\ df_len \in 0..MaxRows
    /\ batch_size \in 1..MaxBatch
    /\ pc = "body"
    /\ i = 0
    /\ responses = <<>>
    /\ attempt_number = 1
    /\ outcome = [type |-> "none"]
    /\ log = <<>>

TIdle ==
    /\ temp = <<>>
    /\ all_topics = <<>>
    /\ unique_topics = {}
    /\ tpc = "done"

Init == DInit /\ TIdle

\* --------------------------------------------------------------- actions
\* One loop iteration whose outbound call succeeds:
\* build the batch, call create, append the content to responses.
CallOk ==
    /\ pc = "body"
    /\ i < df_len
    /\ log' = Append(log, CallEvent("ok"))
    /\ responses' = Append(responses, [batch |-> i \div batch_size, attempt |-> attempt_number])
    /\ i' = i + batch_size
    /\ UNCHANGED <<df_len, batch_size, pc, attempt_number, outcome>>
    /\ UNCHANGED tvars

\* One loop iteration whose outbound call raises, with attempts left:
\* the exception leaves the function body, tenacity catches it (no retry
\* predicate: any Exception is retried) and schedules a sleep.
CallFailRetry ==
    /\ pc = "body"
    /\ i < df_len
    /\ ~stop_after_attempt
    /\ \E kind \in ErrorKinds : log' = Append(log, CallEvent(kind))
    /\ pc' = "sleep"
    /\ UNCHANGED <<df_len, batch_size, i, responses, attempt_number, outcome>>
    /\ UNCHANGED tvars

\* One loop iteration whose outbound call raises on the last attempt:
\* tenacity raises RetryError wrapping the last attempt.
CallFailStop ==
    /\ pc = "body"
    /\ i < df_len
    /\ stop_after_attempt
    /\ \E kind \in ErrorKinds :
         /\ log' = Append(log, CallEvent(kind))
         /\ outcome' = RetryError([kind |-> kind, batch |-> i \div batch_size,
                                   attempt |-> attempt_number])
    /\ pc' = "raised"
    /\ UNCHANGED <<df_len, batch_size, i, responses, attempt_number>>
    /\ UNCHANGED tvars

\* The blocking backoff sleep, then the next attempt: the whole decorated
\* function is called again, from its first line.
Sleep ==
    /\ pc = "sleep"
    /\ \E d \in wait_random_exponential(attempt_number) : log' = Append(log, SleepEvent(d))
    /\ attempt_number' = attempt_number + 1
    /\ responses' = FreshResponses
    /\ i' = 0
    /\ pc' = "body"
    /\ UNCHANGED <<df_len, batch_size, outcome>>
    /\ UNCHANGED tvars

\* The loop is over: return responses
Return ==
    /\ pc = "body"
    /\ i >= df_len
    /\ outcome' = [type |-> "list", value |-> responses]
    /\ pc' = "returned"
    /\ UNCHANGED <<df_len, batch_size, i, responses, attempt_number, log>>
    /\ UNCHANGED tvars

\* ------------------------------------------- distinct-label extraction
\* A label is a Python str, modelled as a sequence of characters over an
\* alphabet with an upper-case letter, its lower-case form and a blank.
Alphabet == {"T", "t", " "}
Whitespace == {" "}
LabelsUpTo(len) == UNION {[1..n -> Alphabet] : n \in 0..len}

\* The tables of at most n labels that hold at most chars characters in all
RECURSIVE Tables(_, _)
Tables(n, chars) ==
    IF n = 0 THEN {<<>>}
    ELSE {<<>>} \cup UNION {{<<l>> \o rest : rest \in Tables(n - 1, chars - Len(l))} :
                              l \in LabelsUpTo(chars)}

\* str.lower(), character by character
LowerChar(c) == IF c = "T" THEN "t" ELSE c
lower_identity(str) == str
lower(str) == [j \in 1..Len(str) |-> LowerChar(str[j])]

\* str.split() without arguments: the maximal runs of non-whitespace
RECURSIVE SplitScan(_, _, _)
SplitScan(str, word, words) ==
    IF str = <<>> THEN (IF word = <<>> THEN words ELSE Append(words, word))
    ELSE IF Head(str) \in Whitespace
         THEN SplitScan(Tail(str), <<>>, IF word = <<>> THEN words ELSE Append(words, word))
         ELSE SplitScan(Tail(str), Append(word, Head(str)), words)
split(str) == SplitScan(str, <<>>, <<>>)

\* [string.lower() for string in all_topics if len(string.split()) == 1]
RECURSIVE FilterLower(_)
FilterLower(list) ==
    IF list = <<>> THEN <<>>
    ELSE IF Len(split(Head(list))) = 1
         THEN <<lower(Head(list))>> \o FilterLower(Tail(list))
         ELSE FilterLower(Tail(list))

\* set(all_topics)
RECURSIVE SetOf(_)
SetOf(list) == IF list = <<>> THEN {} ELSE {Head(list)} \cup SetOf(Tail(list))

\* The state after the cell that fills all_topics from the table
TInit ==
    /\ temp \in Tables(MaxLabels, MaxChars)
    /\ all_topics = temp
    /\ unique_topics = {}
    /\ tpc = "filter"

DIdle ==
    /\ df_len = 0
    /\ batch_size = 1
    /\ pc = "returned"
    /\ i = 0
    /\ responses = <<>>
    /\ attempt_number = 1
    /\ outcome = [type |-> "list", value |-> <<>>]
    /\ log = <<>>

\* all_topics = [string.lower() for string in all_topics if len(string.split()) == 1]
FilterTopics ==
    /\ tpc = "filter"
    /\ all_topics' = FilterLower(all_topics)
    /\ tpc' = "unique"
    /\ UNCHANGED <<temp, unique_topics>>
    /\ UNCHANGED dvars

\* unique_topics = list(set(all_topics))
UniqueTopics ==
    /\ tpc = "unique"
    /\ unique_topics' = SetOf(all_topics)
    /\ tpc' = "done"
    /\ UNCHANGED <<temp, all_topics>>
    /\ UNCHANGED dvars

TopicsInit == DIdle /\ TInit

TopicsNext ==
    \/ FilterTopics
    \/ UniqueTopics

SpecTopics == TopicsInit /\ [][TopicsNext]_vars

Next ==
    \/ CallOk
    \/ CallFailRetry
    \/ CallFailStop
    \/ Sleep
    \/ Return

Spec == Init /\ [][Next]_vars

\* The function runs in one thread and nothing can cancel it: as long as
\* each outbound call returns or raises and each sleep ends, the next step
\* is taken.
FairSpec == Init /\ [][Next]_vars /\ WF_vars(Next)

\* ------------------------------------------------------ reading the history
IsCall(e) == e.ev = "call"
IsSleep(e) == e.ev = "sleep"
IsFail(e) == e.ev = "call" /\ e.result # "ok"
IsOk(e) == e.ev = "call" /\ e.result = "ok"

CallIdx == SelectIdx(log, IsCall)
SleepIdx == SelectIdx(log, IsSleep)
FailIdx == SelectIdx(log, IsFail)

NumBatches == CeilDiv(df_len, batch_size)
BatchIds == 0..(NumBatches - 1)

\* The subsequence of the calls of log that satisfy Test, in order
CallsOf(s, Test(_)) == SelectSeq(s, LAMBDA e : IsCall(e) /\ Test(e))

RowsOf(cs) == Concat([j \in 1..Len(cs) |-> cs[j].rows])

AllCalls == CallsOf(log, LAMBDA e : TRUE)
CallsOfAttempt(a) == CallsOf(log, LAMBDA e : e.attempt = a)
CallsOfBatch(k) == CallsOf(log, LAMBDA e : e.batch = k)

C2_ReturnedListPerBatch ==
    pc = "returned" =>
        /\ outcome.type = "list"
        /\ Len(outcome.value) = CeilDiv(df_len, batch_size)
        /\ \A k \in 1..Len(outcome.value) :
             outcome.value[k] = [batch |-> k - 1, attempt |-> attempt_number]

C2_Witness ==
    /\ pc = "returned"
    /\ attempt_number = 3
    /\ Len(outcome.value) = 2
    /\ \E j \in FailIdx : log[j].batch = 1

\* ------------------------------------------------------------------- C3
\* C3: the number of re-attempts is at most 6 (for the invocation, and so
\* for any one batch's call), and once the failure has reached the caller no
\* further call can be issued.
ReAttempts(k) == Max(0, Len(CallsOfBatch(k)) - 1)

C3_RetriesBounded ==
    /\ Cardinality(SleepIdx) <= stop_max_attempt_number
    /\ attempt_number - 1 <= stop_max_attempt_number
    /\ \A k \in BatchIds : ReAttempts(k) <= stop_max_attempt_number
    /\ (pc = "raised" =>
          /\ ~ENABLED CallOk
          /\ ~ENABLED CallFailRetry
          /\ ~ENABLED CallFailStop
          /\ ~ENABLED Sleep
          /\ outcome.type = "RetryError")

C3_Witness ==
    /\ pc = "raised"
    /\ df_len = 1
    /\ \A j \in CallIdx : log[j].result = "transient"
    /\ ReAttempts(0) = stop_max_attempt_number - 1

\* ------------------------------------------------------------------- C4
\* C4 (as stated): after a non-transient failure of an outbound call no
\* backoff delay is taken and no further outbound call is issued: such a
\* failure is the last event of the history and it has reached the caller.
C4_PermanentNotRetried ==
    \A j \in 1..Len(log) :
        (IsCall(log[j]) /\ log[j].result = "permanent") =>
            j = Len(log)

\* ------------------------------------------------------------------- C5
\* C5 (as stated): a batch that has been answered is not sent to the
\* service again when the call for a later batch fails.
C5_AnsweredNotResent ==
    \A p \in 1..Len(log) : \A q \in 1..Len(log) :
        (p < q /\ IsOk(log[p]) /\ IsCall(log[q])) => log[q].batch # log[p].batch

\* ------------------------------------------------------------------- C6
\* C6 (as stated): if the call for a batch fails twice and succeeds on the
\* third attempt, the dispatcher receives exactly one response for that
\* batch, and exactly two retry delays occur between the first call for
\* that batch and that response.
FailsTwiceThenOk(k) ==
    LET cs == CallsOfBatch(k)
    IN /\ Len(cs) >= 3
       /\ cs[1].result = "transient"
       /\ cs[2].result = "transient"
       /\ cs[3].result = "ok"

PosOfCall(k, n) ==
    CHOOSE p \in 1..Len(log) :
        /\ IsCall(log[p]) /\ log[p].batch = k
        /\ Cardinality({q \in 1..p : IsCall(log[q]) /\ log[q].batch = k}) = n

C6_OneResponseTwoDelays ==
    \A k \in BatchIds :
        FailsTwiceThenOk(k) =>
            /\ Cardinality({p \in 1..Len(log) : IsOk(log[p]) /\ log[p].batch = k}) = 1
            /\ Cardinality({p \in SleepIdx : PosOfCall(k, 1) < p /\ p < PosOfCall(k, 3)}) = 2

\* ------------------------------------------------------------------- C7
\* C7 (as stated): after the attempts are exhausted the caller gets the
\* failure raised by the last outbound call itself, not wrapped.
LastFailure ==
    LET f == log[Len(log)]
    IN [kind |-> f.result, batch |-> f.batch, attempt |-> f.attempt]

C7_Unmodified ==
    pc = "raised" => outcome = LastFailure

\* C7 (amended): after the attempts are exhausted the caller gets a
\* RetryError whose last_attempt is the failure raised by the last outbound
\* call.
C7_RetryErrorWrapsLast ==
    pc = "raised" =>
        /\ IsFail(log[Len(log)])
        /\ outcome.type = "RetryError"
        /\ outcome.last_attempt = LastFailure
        /\ outcome # LastFailure

C7_Witness ==
    /\ pc = "raised"
    /\ outcome.type = "RetryError"
    /\ outcome.last_attempt.batch = 1
    /\ \E j \in FailIdx : log[j].batch = 0

SingleWord(str) ==
    \E a \in 1..Len(str) : \E b \in a..Len(str) :
        \A j \in 1..Len(str) : (a <= j /\ j <= b) <=> str[j] \notin Whitespace

C9_DistinctLabels ==
    tpc = "done" =>
        /\ unique_topics = {lower(l) : l \in {x \in {temp[j] : j \in 1..Len(temp)} : SingleWord(x)}}
        /\ \A x \in unique_topics : \A y \in unique_topics : lower(x) = lower(y) => x = y
        /\ \A x \in unique_topics : \A j \in 1..Len(x) : x[j] # "T"

C9_Witness ==
    /\ tpc = "done"
    /\ temp = << <<"T">>, <<"t", " ", "t">> >>
    /\ unique_topics = { <<"t">> }

\* ------------------------------------------------------------------ C11
\* C11 (as stated): the request of every call is the system message with
\* the system instruction, then the user message whose content is the
\* batch's row texts in source order with the delimiter only between
\* consecutive rows (m - 1 delimiters for m rows).
DelimiterCount(content) == Cardinality({j \in 1..Len(content) : content[j] = delimiter})

C11_JoinedByDelimiter ==
    \A p \in CallIdx :
        LET m == Len(log[p].rows)
            msgs == log[p].messages
        IN /\ Len(msgs) = 2
           /\ msgs[1] = [role |-> "system", content |-> system_message]
           /\ msgs[2].role = "user"
           /\ DelimiterCount(msgs[2].content) = m - 1
           /\ Len(msgs[2].content) = 2 * m - 1
           /\ \A j \in 1..m : msgs[2].content[2 * j - 1] = RowText(log[p].rows[j])

\* C11 (amended): the request of every call is the system message with the
\* system instruction, then the user message whose content is the batch's
\* row texts in source order, each one followed by the delimiter: m
\* delimiters for m rows, the last one ending the content.
\* (log only grows, so looking at each call in the state in which it has
\* just been issued covers every call of every behaviour.)
JustIssued == IF log # <<>> /\ IsCall(log[Len(log)]) THEN {Len(log)} ELSE {}

C11_EachRowThenDelimiter ==
    \A p \in JustIssued :
        LET m == Len(log[p].rows)
            msgs == log[p].messages
        IN /\ Len(msgs) = 2
           /\ msgs[1] = [role |-> "system", content |-> system_message]
           /\ msgs[2].role = "user"
           /\ m >= 1
           /\ log[p].rows = [j \in 1..m |-> log[p].batch * batch_size + j]
           /\ DelimiterCount(msgs[2].content) = m
           /\ Len(msgs[2].content) = 2 * m
           /\ \A j \in 1..m :
                /\ msgs[2].content[2 * j - 1] = RowText(log[p].rows[j])
                /\ msgs[2].content[2 * j] = delimiter

C11_Witness ==
    /\ df_len = 3
    /\ batch_size = 2
    /\ Len(AllCalls) = 2
    /\ AllCalls[1].messages[2].content = <<RowText(1), delimiter, RowText(2), delimiter>>
    /\ AllCalls[2].messages[2].content = <<RowText(3), delimiter>>

\* ------------------------------------------------------------------ C12
\* C12: provided each outbound call returns or fails, every invocation
\* reaches a terminal outcome (a returned list or a propagated failure),
\* and at no point has it issued more than 6 * ceil(N/B) outbound calls.
Terminal == pc \in {"returned", "raised"}

C12_TerminatesWithinBudget ==
    /\ <>Terminal
    /\ [](Len(AllCalls) <= stop_max_attempt_number * CeilDiv(df_len, batch_size))
    /\ [](Terminal => outcome.type \in {"list", "RetryError"})

C12_Witness ==
    /\ pc = "raised"
    /\ NumBatches = 2
    /\ Len(AllCalls) = stop_max_attempt_number * NumBatches

====
